---------------------------- MODULE Spec2Model ----------------------------
(***************************************************************************)
(* Model of package fibonacci (src/fibonacci.go): the dispatcher           *)
(* Fibonacci, the helper log2 and the evaluators fibSeries, fibBlenkinsop, *)
(* fibTakahashi and fibDouble, each run as a sequence of steps (entry,     *)
(* one step per loop iteration, return) over the locals of its call.       *)
(*                                                                         *)
(* math/big integers are modelled exactly, as sign and magnitude; the      *)
(* magnitude is a little-endian sequence of limbs in radix Base without    *)
(* high zero limbs.  An int64 literal of the source is written as its      *)
(* decimal digits in groups of three, most significant group first         *)
(* (7540113804746346429 is <<7, 540, 113, 804, 746, 346, 429>>), since a   *)
(* model integer is narrower than an int64.                                *)
(***************************************************************************)
EXTENDS Integers, Sequences, FiniteSets, TLC

\* ------------------------------------------------------------ bounds
MaxN == 103          \* direct inputs are -MinNeg .. MaxN (plus the threshold inputs)
MinNeg == 3          \* how far below zero the inputs go
MaxDouble == 20      \* largest index given to fibDouble
DoubleBits == 8      \* bit positions scanned by fibDouble (64 in the source, scaled)
MaxBits == 16        \* cap of log2's counter, above any value it reaches for n >= 1
RunDepth == 14       \* a call run alone takes at most 2^RunDepth steps

\* ------------------------------------------------------------ program constants
SeriesLimit == 100
BlenkinsopLimit == 5504

\* ------------------------------------------------------------ math/big
Base == 1000

Max2(x, y) == IF x >= y THEN x ELSE y
Min2(x, y) == IF x <= y THEN x ELSE y
Limb(a, i) == IF i >= 1 /\ i <= Len(a) THEN a[i] ELSE 0

RECURSIVE Trim(_)
Trim(s) == IF Len(s) > 0 /\ s[Len(s)] = 0 THEN Trim(SubSeq(s, 1, Len(s) - 1)) ELSE s

\* carry (and borrow) propagation over columns that are not yet limbs
RECURSIVE NatNorm(_)
NatNorm(s) ==
    IF \A i \in 1..Len(s) : s[i] >= 0 /\ s[i] < Base
    THEN Trim(s)
    ELSE LET n == Len(s)
             m == IF s[n] \div Base # 0 THEN n + 1 ELSE n
         IN NatNorm(<<>> \o [i \in 1..m |->
                (IF i <= n THEN s[i] % Base ELSE 0)
                + (IF i > 1 THEN s[i - 1] \div Base ELSE 0)])

NatAdd(a, b) ==
    NatNorm(<<>> \o [i \in 1..Max2(Len(a), Len(b)) |-> Limb(a, i) + Limb(b, i)])

\* a - b for a >= b
NatSub(a, b) ==
    NatNorm(<<>> \o [i \in 1..Max2(Len(a), Len(b)) |-> Limb(a, i) - Limb(b, i)])

NatLess(a, b) ==
    \/ Len(a) < Len(b)
    \/ /\ Len(a) = Len(b)
       /\ \E i \in 1..Len(a) : a[i] < b[i] /\ \A j \in (i + 1)..Len(a) : a[j] = b[j]

RECURSIVE Conv(_, _, _, _, _)
Conv(a, b, k, lo, hi) ==
    IF lo > hi THEN 0
    ELSE IF lo = hi THEN a[lo] * b[k + 1 - lo]
    ELSE LET mid == (lo + hi) \div 2
         IN Conv(a, b, k, lo, mid) + Conv(a, b, k, mid + 1, hi)

NatMul(a, b) ==
    IF Len(a) = 0 \/ Len(b) = 0 THEN <<>>
    ELSE NatNorm(<<>> \o [k \in 1..(Len(a) + Len(b) - 1) |->
            Conv(a, b, k, Max2(1, k + 1 - Len(b)), Min2(Len(a), k))])

NatShr1(a) ==
    Trim(<<>> \o [i \in 1..Len(a) |-> (a[i] + Base * (Limb(a, i + 1) % 2)) \div 2])

MkBig(neg, abs) == [neg |-> neg /\ abs # <<>>, abs |-> abs]

RECURSIVE ToLimbs(_)
ToLimbs(v) == IF v = 0 THEN <<>> ELSE <<v % Base>> \o ToLimbs(v \div Base)

\* big.NewInt and (*Int).SetInt64 of a value that fits a model integer
NewInt(v) == IF v < 0 THEN MkBig(TRUE, ToLimbs(-v)) ELSE MkBig(FALSE, ToLimbs(v))

\* big.NewInt of an int64 literal written in decimal groups of three
NewInt64(g) == MkBig(FALSE, Trim(<<>> \o [i \in 1..Len(g) |-> g[Len(g) + 1 - i]]))

Zero == NewInt(0)

Add(x, y) ==
    IF x.neg = y.neg THEN MkBig(x.neg, NatAdd(x.abs, y.abs))
    ELSE IF NatLess(x.abs, y.abs) THEN MkBig(y.neg, NatSub(y.abs, x.abs))
    ELSE MkBig(x.neg, NatSub(x.abs, y.abs))

Sub(x, y) == Add(x, MkBig(~y.neg, y.abs))

Mul(x, y) == MkBig(x.neg # y.neg, NatMul(x.abs, y.abs))

\* (*Int).Lsh and (*Int).Rsh; Rsh of a negative value rounds toward minus infinity
RECURSIVE Lsh(_, _)
Lsh(x, n) == IF n = 0 THEN x ELSE Lsh(MkBig(x.neg, NatAdd(x.abs, x.abs)), n - 1)

RECURSIVE Rsh(_, _)
Rsh(x, n) ==
    IF n = 0 THEN x
    ELSE IF x.neg
         THEN Rsh(MkBig(TRUE, NatAdd(NatShr1(NatSub(x.abs, <<1>>)), <<1>>)), n - 1)
         ELSE Rsh(MkBig(FALSE, NatShr1(x.abs)), n - 1)

\* ------------------------------------------------------------ machine integers
\* n >> s of a signed int
Shr(n, s) == n \div (2 ^ s)

\* x & y of two's complement integers
RECURSIVE BitAnd(_, _)
BitAnd(x, y) ==
    IF x = 0 \/ y = 0 THEN 0
    ELSE IF x = -1 THEN y
    ELSE IF y = -1 THEN x
    ELSE (x % 2) * (y % 2) + 2 * BitAnd(x \div 2, y \div 2)

\* uint64(k), at the model's scan width
ToUint64(k) == k % (2 ^ DoubleBits)

\* ------------------------------------------------------------ globals
fibonacciTableInit == <<
    <<0>>, <<1>>, <<1>>, <<2>>, <<3>>, <<5>>, <<8>>, <<13>>, <<21>>, <<34>>, <<55>>,
    <<89>>, <<144>>, <<233>>, <<377>>, <<610>>, <<987>>, <<1, 597>>, <<2, 584>>,
    <<4, 181>>, <<6, 765>>, <<10, 946>>, <<17, 711>>, <<28, 657>>, <<46, 368>>,
    <<75, 25>>, <<121, 393>>, <<196, 418>>, <<317, 811>>, <<514, 229>>, <<832, 40>>,
    <<1, 346, 269>>, <<2, 178, 309>>, <<3, 524, 578>>, <<5, 702, 887>>,
    <<9, 227, 465>>, <<14, 930, 352>>, <<24, 157, 817>>, <<39, 88, 169>>,
    <<63, 245, 986>>, <<102, 334, 155>>, <<165, 580, 141>>, <<267, 914, 296>>,
    <<433, 494, 437>>, <<701, 408, 733>>, <<1, 134, 903, 170>>, <<1, 836, 311, 903>>,
    <<2, 971, 215, 73>>, <<4, 807, 526, 976>>, <<7, 778, 742, 49>>,
    <<12, 586, 269, 25>>, <<20, 365, 11, 74>>, <<32, 951, 280, 99>>,
    <<53, 316, 291, 173>>, <<86, 267, 571, 272>>, <<139, 583, 862, 445>>,
    <<225, 851, 433, 717>>, <<365, 435, 296, 162>>, <<591, 286, 729, 879>>,
    <<956, 722, 26, 41>>, <<1, 548, 8, 755, 920>>, <<2, 504, 730, 781, 961>>,
    <<4, 52, 739, 537, 881>>, <<6, 557, 470, 319, 842>>, <<10, 610, 209, 857, 723>>,
    <<17, 167, 680, 177, 565>>, <<27, 777, 890, 35, 288>>, <<44, 945, 570, 212, 853>>,
    <<72, 723, 460, 248, 141>>, <<117, 669, 30, 460, 994>>,
    <<190, 392, 490, 709, 135>>, <<308, 61, 521, 170, 129>>,
    <<498, 454, 11, 879, 264>>, <<806, 515, 533, 49, 393>>,
    <<1, 304, 969, 544, 928, 657>>, <<2, 111, 485, 77, 978, 50>>,
    <<3, 416, 454, 622, 906, 707>>, <<5, 527, 939, 700, 884, 757>>,
    <<8, 944, 394, 323, 791, 464>>, <<14, 472, 334, 24, 676, 221>>,
    <<23, 416, 728, 348, 467, 685>>, <<37, 889, 62, 373, 143, 906>>,
    <<61, 305, 790, 721, 611, 591>>, <<99, 194, 853, 94, 755, 497>>,
    <<160, 500, 643, 816, 367, 88>>, <<259, 695, 496, 911, 122, 585>>,
    <<420, 196, 140, 727, 489, 673>>, <<679, 891, 637, 638, 612, 258>>,
    <<1, 100, 87, 778, 366, 101, 931>>, <<1, 779, 979, 416, 4, 714, 189>>,
    <<2, 880, 67, 194, 370, 816, 120>>, <<4, 660, 46, 610, 375, 530, 309>>,
    <<7, 540, 113, 804, 746, 346, 429>>
    >>

c2Init == NewInt(2)
c3Init == NewInt(3)
c5Init == NewInt(5)

VARIABLES
    calls,             \* the calls in progress: call id -> the call's locals
    fibonacciTable,    \* package variable fibonacciTable
    c2, c3, c5         \* package variables c2, c3, c5

vars == <<calls, fibonacciTable, c2, c3, c5>>

\* the package variables as a step reads them
Globals == [fibonacciTable |-> fibonacciTable, c2 |-> c2, c3 |-> c3, c5 |-> c5]
\* the package variables as initialised
Globals0 == [fibonacciTable |-> fibonacciTableInit, c2 |-> c2Init, c3 |-> c3Init,
             c5 |-> c5Init]

\* faulty variant: the slice indexed as if from 1
TableAtOneBased(t, n) == t[n]

\* fibonacciTable[n], the slice being indexed from 0
TableAt(t, n) == t[n + 1]

\* ------------------------------------------------------------ a call's locals
\* fn, n: the function called and its argument; pc: where the call is;
\* used: the table access and the evaluators entered, in order; log2Calls: calls
\* of log2 made; iters: bit-scan iterations executed; caller, lgn, lgbits: the
\* frame of log2 (return site, parameter n, result bits); the rest are the
\* locals of the evaluators under their source names; ret: the value returned.
NewFrame(fn, n) ==
    [fn |-> fn, n |-> n, pc |-> fn, used |-> <<>>, log2Calls |-> 0, iters |-> 0,
     caller |-> "", lgn |-> 0, lgbits |-> 0,
     a |-> Zero, b |-> Zero, c |-> Zero, i |-> 0, bit |-> 0,
     h |-> 0, f1 |-> Zero, f2 |-> Zero, f3 |-> Zero,
     f |-> Zero, l |-> Zero, sign |-> Zero, t1 |-> Zero, t2 |-> Zero,
     bits |-> 0, mask |-> 0, ret |-> Zero]

Return(s, v) == [s EXCEPT !.ret = v, !.pc = "done"]

CallLog2(s, from) ==
    [s EXCEPT !.pc = "log2", !.caller = from, !.lgn = s.n, !.lgbits = 0,
              !.log2Calls = s.log2Calls + 1]

\* ------------------------------------------------------------ Fibonacci
\* faulty variant: the first case written n < 0, so that index 0 reaches the table
StrategyClampsBelowZero(n, tableLen) ==
    IF n < 0 THEN "zero"
    ELSE IF n < tableLen THEN "table"
    ELSE IF n <= SeriesLimit THEN "fibSeries"
    ELSE IF n <= BlenkinsopLimit THEN "fibBlenkinsop"
    ELSE "fibTakahashi"

\* faulty variant: the series case written n < 100
StrategySeriesBelowLimit(n, tableLen) ==
    IF n < 1 THEN "zero"
    ELSE IF n < tableLen THEN "table"
    ELSE IF n < SeriesLimit THEN "fibSeries"
    ELSE IF n <= BlenkinsopLimit THEN "fibBlenkinsop"
    ELSE "fibTakahashi"

\* the switch of Fibonacci: which case n takes
Strategy(n, tableLen) ==
    IF n < 1 THEN "zero"
    ELSE IF n < tableLen THEN "table"
    ELSE IF n <= SeriesLimit THEN "fibSeries"
    ELSE IF n <= BlenkinsopLimit THEN "fibBlenkinsop"
    ELSE "fibTakahashi"

FibonacciSwitch(s, g) ==
    LET k == Strategy(s.n, Len(g.fibonacciTable))
    IN  IF k = "zero" THEN Return(s, NewInt(0))
        ELSE IF k = "table"
        THEN Return([s EXCEPT !.used = Append(s.used, "table")],
                    NewInt64(TableAt(g.fibonacciTable, s.n)))
        ELSE [s EXCEPT !.pc = k]

\* ------------------------------------------------------------ log2
\* faulty variant: the loop tests n >> bits
Log2CondOffByOne(n, bits) == Shr(n, bits) # 0

Log2Cond(n, bits) == Shr(n, bits + 1) # 0

Log2Body(s) == [s EXCEPT !.lgbits = s.lgbits + 1]

\* ------------------------------------------------------------ fibSeries
SeriesEnter(s) ==
    LET e == [s EXCEPT !.used = Append(s.used, "fibSeries")]
    IN  IF s.n < 1 THEN Return(e, NewInt(0))
        ELSE [e EXCEPT !.a = NewInt(0), !.b = NewInt(1), !.i = 0, !.pc = "series_loop"]

SeriesCond(s) == s.i < s.n

\* faulty variant: the pair assigned in sequence, a = b and then b = a + b
SeriesBodySequential(s) == [s EXCEPT !.a = s.b, !.b = Add(s.b, s.b), !.i = s.i + 1]

SeriesBody(s) == [s EXCEPT !.a = s.b, !.b = Add(s.a, s.b), !.i = s.i + 1]

\* ------------------------------------------------------------ fibBlenkinsop
BlenkinsopEnter(s) ==
    LET e == [s EXCEPT !.used = Append(s.used, "fibBlenkinsop")]
    IN  IF s.n < 1 THEN Return(e, NewInt(0)) ELSE CallLog2(e, "fibBlenkinsop")

\* h := uint(log2(n)); f1, f2, f3 := 0, 1, new(big.Int)
BlenkinsopInit(s) ==
    [s EXCEPT !.h = s.lgbits, !.f1 = NewInt(0), !.f2 = NewInt(1), !.f3 = Zero,
              !.pc = "blenkinsop_loop"]

BlenkinsopCond(s) == s.h > 0

\* faulty variant: the clear-bit branch without the exchange f2, f3 = f3, f2
BlenkinsopBodyNoSwap(s) ==
    LET f3a == Add(s.f1, s.f2)
    IN  IF BitAnd(Shr(s.n, s.h - 1), 1) = 1
        THEN LET f1a == Mul(Add(s.f1, f3a), s.f2)
                 f2a == Mul(s.f2, s.f2)
                 f3b == Mul(f3a, f3a)
             IN  [s EXCEPT !.f1 = f1a, !.f2 = Add(f2a, f3b), !.f3 = f3b,
                           !.h = s.h - 1, !.iters = s.iters + 1]
        ELSE LET f3b == Mul(Add(s.f1, f3a), s.f2)
                 f1a == Mul(s.f1, s.f1)
                 f2a == Mul(s.f2, s.f2)
             IN  [s EXCEPT !.f1 = Add(f1a, f2a), !.f2 = f2a, !.f3 = f3b,
                           !.h = s.h - 1, !.iters = s.iters + 1]

BlenkinsopBody(s) ==
    LET f3a == Add(s.f1, s.f2)
    IN  IF BitAnd(Shr(s.n, s.h - 1), 1) = 1
        THEN LET f1a == Mul(Add(s.f1, f3a), s.f2)
                 f2a == Mul(s.f2, s.f2)
                 f3b == Mul(f3a, f3a)
             IN  [s EXCEPT !.f1 = f1a, !.f2 = Add(f2a, f3b), !.f3 = f3b,
                           !.h = s.h - 1, !.iters = s.iters + 1]
        ELSE LET f3b == Mul(Add(s.f1, f3a), s.f2)
                 f1a == Mul(s.f1, s.f1)
                 f2a == Mul(s.f2, s.f2)
             IN  [s EXCEPT !.f1 = Add(f1a, f2a), !.f2 = f3b, !.f3 = f2a,
                           !.h = s.h - 1, !.iters = s.iters + 1]

\* ------------------------------------------------------------ fibTakahashi
TakahashiEnter(s) ==
    LET e == [s EXCEPT !.used = Append(s.used, "fibTakahashi")]
    IN  IF s.n <= 0 THEN Return(e, NewInt(0))
        ELSE IF s.n <= 2 THEN Return(e, NewInt(1))
        ELSE CallLog2([e EXCEPT !.f = NewInt(1), !.l = NewInt(1), !.sign = NewInt(-1)],
                      "fibTakahashi")

\* bits := log2(n); mask := 1 << uint(bits-1); t1, t2 := 0, 0; i := 1
TakahashiInit(s) ==
    [s EXCEPT !.bits = s.lgbits, !.mask = 2 ^ (s.lgbits - 1), !.t1 = NewInt(0),
              !.t2 = NewInt(0), !.i = 1, !.pc = "takahashi_loop"]

TakahashiCond(s) == s.i < s.bits

\* faulty variant: sign.SetInt64(1) left out
TakahashiDoubleKeepsSign(s, g) ==
    LET t1a == Mul(s.f, s.f)
        fa  == Rsh(Add(s.f, s.l), 1)
        fb  == Lsh(Mul(fa, fa), 1)
        fc  == Sub(fb, Mul(t1a, g.c3))
        t2a == Mul(s.sign, g.c2)
        fd  == Sub(fc, t2a)
        la  == Add(Mul(t1a, g.c5), t2a)
    IN  [s EXCEPT !.t1 = t1a, !.t2 = t2a, !.f = fd, !.l = la]

\* lines 124-132: from (F(k), L(k), (-1)^k) to the same at 2k
TakahashiDouble(s, g) ==
    LET t1a == Mul(s.f, s.f)
        fa  == Rsh(Add(s.f, s.l), 1)
        fb  == Lsh(Mul(fa, fa), 1)
        fc  == Sub(fb, Mul(t1a, g.c3))
        t2a == Mul(s.sign, g.c2)
        fd  == Sub(fc, t2a)
        la  == Add(Mul(t1a, g.c5), t2a)
    IN  [s EXCEPT !.t1 = t1a, !.t2 = t2a, !.f = fd, !.l = la, !.sign = NewInt(1)]

\* lines 135-139: the branch taken when the bit under mask is set
TakahashiOdd(s) ==
    LET fe  == Rsh(Add(s.f, s.l), 1)
        t1b == Lsh(s.f, 1)
    IN  [s EXCEPT !.t1 = t1b, !.f = fe, !.l = Add(fe, t1b), !.sign = NewInt(-1)]

TakahashiBody(s, g) ==
    LET d == TakahashiDouble(s, g)
        e == IF BitAnd(s.n, s.mask) # 0 THEN TakahashiOdd(d) ELSE d
    IN  [e EXCEPT !.mask = Shr(s.mask, 1), !.i = s.i + 1, !.iters = s.iters + 1]

\* faulty variant: the odd case without the subtraction of sign
TakahashiFinalNoSign(s) ==
    IF BitAnd(s.n, s.mask) = 0
    THEN Return([s EXCEPT !.f = Mul(s.f, s.l)], Mul(s.f, s.l))
    ELSE LET fa == Rsh(Add(s.f, s.l), 1)
             fb == Mul(fa, s.l)
         IN  Return([s EXCEPT !.f = fb], fb)

\* the step after the loop, and the return
TakahashiFinal(s) ==
    IF BitAnd(s.n, s.mask) = 0
    THEN Return([s EXCEPT !.f = Mul(s.f, s.l)], Mul(s.f, s.l))
    ELSE LET fa == Rsh(Add(s.f, s.l), 1)
             fb == Sub(Mul(fa, s.l), s.sign)
         IN  Return([s EXCEPT !.f = fb], fb)

\* ------------------------------------------------------------ fibDouble
DoubleEnter(s) ==
    [s EXCEPT !.used = Append(s.used, "fibDouble"), !.a = NewInt(0), !.b = NewInt(1),
              !.c = Zero, !.bit = 2 ^ (DoubleBits - 1), !.pc = "double_loop"]

DoubleCond(s) == s.bit > 0

DoubleBody(s) ==
    LET c1 == Add(Mul(s.a, s.b), Mul(s.a, s.b))
        a1 == Mul(s.a, s.a)
        c2a == Sub(c1, a1)
        b1 == Add(Mul(s.b, s.b), a1)
    IN  IF BitAnd(ToUint64(s.n), s.bit) # 0
        THEN [s EXCEPT !.c = Add(c2a, b1), !.a = b1, !.b = Add(c2a, b1),
                       !.bit = Shr(s.bit, 1)]
        ELSE [s EXCEPT !.c = c2a, !.a = c2a, !.b = b1, !.bit = Shr(s.bit, 1)]

DoubleReturnValue(s) == s.a

\* ------------------------------------------------------------ a call run alone
Log2Return(s) ==
    IF s.caller = "fibBlenkinsop" THEN BlenkinsopInit(s) ELSE TakahashiInit(s)

\* the next step of a call, as a function of its locals and the package variables
StepFrame(s, g) ==
    CASE s.pc = "Fibonacci"       -> FibonacciSwitch(s, g)
      [] s.pc = "fibSeries"       -> SeriesEnter(s)
      [] s.pc = "series_loop"     -> IF SeriesCond(s) THEN SeriesBody(s)
                                     ELSE Return(s, s.a)
      [] s.pc = "fibBlenkinsop"   -> BlenkinsopEnter(s)
      [] s.pc = "blenkinsop_loop" -> IF BlenkinsopCond(s) THEN BlenkinsopBody(s)
                                     ELSE Return(s, s.f2)
      [] s.pc = "fibTakahashi"    -> TakahashiEnter(s)
      [] s.pc = "takahashi_loop"  -> IF TakahashiCond(s) THEN TakahashiBody(s, g)
                                     ELSE TakahashiFinal(s)
      [] s.pc = "log2"            -> IF ~Log2Cond(s.lgn, s.lgbits) THEN Log2Return(s)
                                     ELSE IF s.lgbits < MaxBits THEN Log2Body(s)
                                     ELSE s
      [] s.pc = "fibDouble"       -> DoubleEnter(s)
      [] s.pc = "double_loop"     -> IF DoubleCond(s) THEN DoubleBody(s)
                                     ELSE Return(s, DoubleReturnValue(s))
      [] OTHER                    -> s

\* at most 2^d steps of a call from s
RECURSIVE RunFrame(_, _, _)
RunFrame(s, g, d) ==
    IF s.pc = "done" THEN s
    ELSE IF d = 0 THEN StepFrame(s, g)
    ELSE LET m == RunFrame(s, g, d - 1)
         IN  IF m.pc = "done" THEN m ELSE RunFrame(m, g, d - 1)

\* the value fn(n) returns when the call runs alone
RunAlone(fn, n) == RunFrame(NewFrame(fn, n), Globals0, RunDepth)

Fibonacci(n) == RunAlone("Fibonacci", n).ret
fibSeries(n) == RunAlone("fibSeries", n).ret
fibBlenkinsop(n) == RunAlone("fibBlenkinsop", n).ret
fibTakahashi(n) == RunAlone("fibTakahashi", n).ret

\* ------------------------------------------------------------ inputs
SmallInputs == (-MinNeg)..MaxN
ThresholdInputs == (BlenkinsopLimit - 1)..(BlenkinsopLimit + 2)
DoubleInputs == (-MinNeg)..MaxDouble

Frames ==
    {NewFrame("Fibonacci", n) : n \in SmallInputs \cup ThresholdInputs}
    \cup {NewFrame("fibSeries", n) : n \in SmallInputs}
    \cup {NewFrame("fibBlenkinsop", n) : n \in SmallInputs \cup ThresholdInputs}
    \cup {NewFrame("fibTakahashi", n) : n \in SmallInputs \cup ThresholdInputs}
    \cup {NewFrame("fibDouble", n) : n \in DoubleInputs}

ConcInputs == {-1, 0, 10, SeriesLimit, SeriesLimit + 1, BlenkinsopLimit + 1}

ConcFrames ==
    {NewFrame("Fibonacci", n) : n \in ConcInputs} \cup {NewFrame("fibDouble", 3)}

GlobalsInit ==
    /\ fibonacciTable = fibonacciTableInit
    /\ c2 = c2Init
    /\ c3 = c3Init
    /\ c5 = c5Init

\* one call
Init == calls \in [{1} -> Frames] /\ GlobalsInit

\* two calls running concurrently
ConcInit == calls \in [{1, 2} -> ConcFrames] /\ GlobalsInit

\* ------------------------------------------------------------ actions
Goes(p, s) == calls' = [calls EXCEPT ![p] = s]
ReadOnly == UNCHANGED <<fibonacciTable, c2, c3, c5>>

FibonacciCall(p) ==
    /\ calls[p].pc = "Fibonacci"
    /\ Goes(p, FibonacciSwitch(calls[p], Globals))
    /\ ReadOnly

SeriesStart(p) ==
    /\ calls[p].pc = "fibSeries"
    /\ Goes(p, SeriesEnter(calls[p]))
    /\ ReadOnly

SeriesIter(p) ==
    /\ calls[p].pc = "series_loop"
    /\ SeriesCond(calls[p])
    /\ Goes(p, SeriesBody(calls[p]))
    /\ ReadOnly

SeriesReturn(p) ==
    /\ calls[p].pc = "series_loop"
    /\ ~SeriesCond(calls[p])
    /\ Goes(p, Return(calls[p], calls[p].a))
    /\ ReadOnly

BlenkinsopStart(p) ==
    /\ calls[p].pc = "fibBlenkinsop"
    /\ Goes(p, BlenkinsopEnter(calls[p]))
    /\ ReadOnly

Log2Iter(p) ==
    /\ calls[p].pc = "log2"
    /\ Log2Cond(calls[p].lgn, calls[p].lgbits)
    /\ calls[p].lgbits < MaxBits
    /\ Goes(p, Log2Body(calls[p]))
    /\ ReadOnly

Log2Exit(p) ==
    /\ calls[p].pc = "log2"
    /\ ~Log2Cond(calls[p].lgn, calls[p].lgbits)
    /\ Goes(p, Log2Return(calls[p]))
    /\ ReadOnly

BlenkinsopIter(p) ==
    /\ calls[p].pc = "blenkinsop_loop"
    /\ BlenkinsopCond(calls[p])
    /\ Goes(p, BlenkinsopBody(calls[p]))
    /\ ReadOnly

BlenkinsopReturn(p) ==
    /\ calls[p].pc = "blenkinsop_loop"
    /\ ~BlenkinsopCond(calls[p])
    /\ Goes(p, Return(calls[p], calls[p].f2))
    /\ ReadOnly

TakahashiStart(p) ==
    /\ calls[p].pc = "fibTakahashi"
    /\ Goes(p, TakahashiEnter(calls[p]))
    /\ ReadOnly

\* faulty variant: the scratch product 2*sign written into c2 instead of t2
TakahashiIterSharedScratch(p) ==
    /\ calls[p].pc = "takahashi_loop"
    /\ TakahashiCond(calls[p])
    /\ Goes(p, TakahashiBody(calls[p], Globals))
    /\ c2' = Mul(calls[p].sign, c2)
    /\ UNCHANGED <<fibonacciTable, c3, c5>>

TakahashiIter(p) ==
    /\ calls[p].pc = "takahashi_loop"
    /\ TakahashiCond(calls[p])
    /\ Goes(p, TakahashiBody(calls[p], Globals))
    /\ ReadOnly

TakahashiReturn(p) ==
    /\ calls[p].pc = "takahashi_loop"
    /\ ~TakahashiCond(calls[p])
    /\ Goes(p, TakahashiFinal(calls[p]))
    /\ ReadOnly

DoubleStart(p) ==
    /\ calls[p].pc = "fibDouble"
    /\ Goes(p, DoubleEnter(calls[p]))
    /\ ReadOnly

DoubleIter(p) ==
    /\ calls[p].pc = "double_loop"
    /\ DoubleCond(calls[p])
    /\ Goes(p, DoubleBody(calls[p]))
    /\ ReadOnly

DoubleReturn(p) ==
    /\ calls[p].pc = "double_loop"
    /\ ~DoubleCond(calls[p])
    /\ Goes(p, Return(calls[p], DoubleReturnValue(calls[p])))
    /\ ReadOnly

Next ==
    \/ \E p \in DOMAIN calls : FibonacciCall(p)
    \/ \E p \in DOMAIN calls : SeriesStart(p)
    \/ \E p \in DOMAIN calls : SeriesIter(p)
    \/ \E p \in DOMAIN calls : SeriesReturn(p)
    \/ \E p \in DOMAIN calls : BlenkinsopStart(p)
    \/ \E p \in DOMAIN calls : Log2Iter(p)
    \/ \E p \in DOMAIN calls : Log2Exit(p)
    \/ \E p \in DOMAIN calls : BlenkinsopIter(p)
    \/ \E p \in DOMAIN calls : BlenkinsopReturn(p)
    \/ \E p \in DOMAIN calls : TakahashiStart(p)
    \/ \E p \in DOMAIN calls : TakahashiIter(p)
    \/ \E p \in DOMAIN calls : TakahashiReturn(p)
    \/ \E p \in DOMAIN calls : DoubleStart(p)
    \/ \E p \in DOMAIN calls : DoubleIter(p)
    \/ \E p \in DOMAIN calls : DoubleReturn(p)

Spec == Init /\ [][Next]_vars

ConcSpec == ConcInit /\ [][Next]_vars

\* ------------------------------------------------------------ reference values
\* m steps of the defining recurrence from the pair p = <<F(j), F(j+1)>>
RECURSIVE Advance(_, _)
Advance(p, m) ==
    IF m <= 0 THEN p
    ELSE IF m = 1 THEN <<p[2], Add(p[1], p[2])>>
    ELSE LET q == Advance(p, m \div 2)
         IN  IF Len(q) = 2 THEN Advance(q, m - (m \div 2)) ELSE q

\* the Fibonacci number F(k) and the Lucas number L(k), k >= 0
F(k) == Advance(<<NewInt(0), NewInt(1)>>, k)[1]
L(k) == LET p == Advance(<<NewInt(0), NewInt(1)>>, k) IN Sub(Add(p[2], p[2]), p[1])

IsEven(x) == Limb(x.abs, 1) % 2 = 0
Ids == DOMAIN calls
Done(p) == calls[p].pc = "done"
Clamped == {"Fibonacci", "fibSeries", "fibBlenkinsop", "fibTakahashi"}

\* ------------------------------------------------------------ C1
\* C1: Fibonacci(0) = 0, Fibonacci(1) = 1 and, for every n >= 2, the value a call
\* Fibonacci(n) returns is Fibonacci(n-1) + Fibonacci(n-2), whichever cases of the
\* switch the three indices take.
C1_Recurrence ==
    \A p \in Ids :
        (calls[p].fn = "Fibonacci" /\ Done(p)) =>
            /\ calls[p].n = 0 => calls[p].ret = NewInt(0)
            /\ calls[p].n = 1 => calls[p].ret = NewInt(1)
            /\ calls[p].n >= 2 =>
                  calls[p].ret = Add(Fibonacci(calls[p].n - 1), Fibonacci(calls[p].n - 2))

\* Fibonacci(5505) has returned: Takahashi for 5505, Blenkinsop for 5504 and 5503
C1_Witness ==
    /\ calls[1].fn = "Fibonacci"
    /\ calls[1].n = BlenkinsopLimit + 1
    /\ Done(1)
    /\ calls[1].used = <<"fibTakahashi">>
    /\ calls[1].ret # NewInt(0)

\* ------------------------------------------------------------ C2
\* C2: a call of Fibonacci, fibSeries, fibBlenkinsop or fibTakahashi with n < 1
\* returns 0 from its first step: it never reads the table, never enters a loop,
\* never calls log2, and Fibonacci enters no evaluator.
C2_ClampBelowOne ==
    \A p \in Ids :
        (calls[p].fn \in Clamped /\ calls[p].n < 1) =>
            /\ calls[p].pc \in {calls[p].fn, "done"}
            /\ calls[p].log2Calls = 0
            /\ calls[p].iters = 0
            /\ \A j \in 1..Len(calls[p].used) : calls[p].used[j] = calls[p].fn
            /\ calls[p].fn = "Fibonacci" => calls[p].used = <<>>
            /\ Done(p) => calls[p].ret = NewInt(0)

\* Fibonacci of a negative index has returned
C2_Witness ==
    /\ calls[1].fn = "Fibonacci"
    /\ calls[1].n < 0
    /\ Done(1)
    /\ calls[1].ret = NewInt(0)
    /\ calls[1].used = <<>>

\* ------------------------------------------------------------ C3
\* C3: for every n >= 1 the value a call of an evaluator (directly or from
\* Fibonacci) returns is the value fibBlenkinsop(n) and fibTakahashi(n) return and,
\* for n up to MaxN, the value fibSeries(n) returns.
C3_EvaluatorsAgree ==
    \A p \in Ids :
        (calls[p].fn \in Clamped /\ calls[p].n >= 1 /\ Done(p)) =>
            /\ calls[p].ret = fibBlenkinsop(calls[p].n)
            /\ calls[p].ret = fibTakahashi(calls[p].n)
            /\ calls[p].n <= MaxN => calls[p].ret = fibSeries(calls[p].n)

\* fibTakahashi(5505) has returned
C3_Witness ==
    /\ calls[1].fn = "fibTakahashi"
    /\ calls[1].n = BlenkinsopLimit + 1
    /\ Done(1)
    /\ calls[1].iters > 0

\* ------------------------------------------------------------ C4
\* the strategy the claim assigns to n
Expected(n) ==
    IF n <= 92 THEN "table"
    ELSE IF n <= 100 THEN "fibSeries"
    ELSE IF n <= 5504 THEN "fibBlenkinsop"
    ELSE "fibTakahashi"

\* C4 as stated: every call Fibonacci(n) with n >= 0 uses exactly one strategy,
\* the one its index selects.
C4_Original ==
    \A p \in Ids :
        (calls[p].fn = "Fibonacci" /\ calls[p].n >= 0 /\ Done(p)) =>
            calls[p].used = <<Expected(calls[p].n)>>

\* C4 amended: every call Fibonacci(n) with n >= 1 uses exactly one strategy, the
\* one its index selects, and is never inside another one; Fibonacci(0) uses none.
C4_Dispatch ==
    \A p \in Ids :
        calls[p].fn = "Fibonacci" =>
            /\ calls[p].n >= 1 =>
                  /\ calls[p].used \in {<<>>, <<Expected(calls[p].n)>>}
                  /\ calls[p].pc \in {"Fibonacci", Expected(calls[p].n)}
                        \/ calls[p].used = <<Expected(calls[p].n)>>
            /\ calls[p].n = 0 => calls[p].used = <<>>

\* Fibonacci(100) has returned from fibSeries
C4_Witness ==
    /\ calls[1].fn = "Fibonacci"
    /\ calls[1].n = 100
    /\ Done(1)
    /\ calls[1].used = <<"fibSeries">>

\* ------------------------------------------------------------ C5
\* the table's entries obey the recurrence from 0 and 1
TableIsFibonacci ==
    /\ Len(fibonacciTable) = 93
    /\ NewInt64(fibonacciTable[1]) = NewInt(0)
    /\ NewInt64(fibonacciTable[2]) = NewInt(1)
    /\ \A j \in 3..Len(fibonacciTable) :
          NewInt64(fibonacciTable[j]) =
              Add(NewInt64(fibonacciTable[j - 1]), NewInt64(fibonacciTable[j - 2]))

\* C5: the table holds the 93 values F(0) .. F(92), and for 1 <= n <= 92 a call
\* Fibonacci(n) returns entry n of it (55, 12586269025 and 7540113804746346429 for
\* n = 10, 50 and 92).
C5_TableLookup ==
    \A p \in Ids :
        (calls[p].fn = "Fibonacci" /\ Done(p)) =>
            /\ TableIsFibonacci
            /\ (calls[p].n >= 1 /\ calls[p].n <= 92) =>
                  /\ calls[p].ret = NewInt64(fibonacciTable[calls[p].n + 1])
                  /\ calls[p].ret = F(calls[p].n)
            /\ calls[p].n = 10 => calls[p].ret = NewInt(55)
            /\ calls[p].n = 50 => calls[p].ret = NewInt64(<<12, 586, 269, 25>>)
            /\ calls[p].n = 92 =>
                  calls[p].ret = NewInt64(<<7, 540, 113, 804, 746, 346, 429>>)

\* Fibonacci(92) has returned the last entry of the table
C5_Witness ==
    /\ calls[1].fn = "Fibonacci"
    /\ calls[1].n = 92
    /\ Done(1)
    /\ calls[1].used = <<"table">>
    /\ calls[1].ret = NewInt64(<<7, 540, 113, 804, 746, 346, 429>>)

\* ------------------------------------------------------------ C6
\* C6: while two calls run concurrently, in any interleaving of their steps, the
\* package variables fibonacciTable, c2, c3 and c5 keep the values they were
\* initialised with, and once the calls have returned each has the value its call
\* returns when run alone, so two calls with the same index return the same value.
C6_ConcurrentCalls ==
    /\ fibonacciTable = fibonacciTableInit
    /\ c2 = NewInt(2)
    /\ c3 = NewInt(3)
    /\ c5 = NewInt(5)
    /\ (\A p \in Ids : Done(p)) =>
          /\ \A p \in Ids : calls[p].ret = RunAlone(calls[p].fn, calls[p].n).ret
          /\ \A p, q \in Ids :
                (calls[p].fn = calls[q].fn /\ calls[p].n = calls[q].n) =>
                    calls[p].ret = calls[q].ret

\* two concurrent calls Fibonacci(5505), both through fibTakahashi, have returned
C6_Witness ==
    /\ DOMAIN calls = {1, 2}
    /\ \A p \in Ids :
          /\ calls[p].fn = "Fibonacci"
          /\ calls[p].n = BlenkinsopLimit + 1
          /\ calls[p].used = <<"fibTakahashi">>
          /\ Done(p)

\* ------------------------------------------------------------ C7
\* the prefix of n's bits a Blenkinsop scan has consumed with h bits to go
Prefix(p) == Shr(calls[p].n, calls[p].h)
InBlenkinsopLoop(p) ==
    /\ calls[p].fn = "fibBlenkinsop"
    /\ calls[p].pc = "blenkinsop_loop"
    /\ calls[p].n >= 1
    /\ calls[p].n <= MaxN

\* C7 as stated: before the first and after every iteration of the bit scan of
\* fibBlenkinsop(n), (f1, f2) = (F(k), F(k+1)) for the prefix k = n >> h.
C7_Original ==
    \A p \in Ids :
        InBlenkinsopLoop(p) =>
            /\ calls[p].f1 = F(Prefix(p))
            /\ calls[p].f2 = F(Prefix(p) + 1)

\* C7 amended: the pair starts as (0, 1) and before the first and after every
\* iteration of the bit scan (f1, f2) = (F(k-1), F(k)) for the prefix k = n >> h,
\* which starts at 1, the highest set bit; with all bits consumed the function
\* returns f2 = F(n).
C7_BlenkinsopPair ==
    \A p \in Ids :
        /\ InBlenkinsopLoop(p) =>
              /\ Prefix(p) >= 1
              /\ calls[p].iters = 0 =>
                    (calls[p].f1 = NewInt(0) /\ calls[p].f2 = NewInt(1) /\ Prefix(p) = 1)
              /\ calls[p].f1 = F(Prefix(p) - 1)
              /\ calls[p].f2 = F(Prefix(p))
        /\ (calls[p].fn = "fibBlenkinsop" /\ Done(p) /\ calls[p].n >= 1
                /\ calls[p].n <= MaxN) =>
              /\ calls[p].h = 0
              /\ calls[p].ret = calls[p].f2
              /\ calls[p].ret = F(calls[p].n)

\* fibBlenkinsop(100) after three iterations, the prefix being 12
C7_Witness ==
    /\ calls[1].fn = "fibBlenkinsop"
    /\ calls[1].pc = "blenkinsop_loop"
    /\ calls[1].n = 100
    /\ calls[1].iters = 3
    /\ Shr(calls[1].n, calls[1].h) = 12

\* ------------------------------------------------------------ C8
\* the prefix of n's bits above the mask position
MaskPrefix(p) == calls[p].n \div (2 * calls[p].mask)
SignOf(k) == IF k % 2 = 0 THEN NewInt(1) ELSE NewInt(-1)
InTakahashiLoop(p) ==
    /\ calls[p].fn = "fibTakahashi"
    /\ calls[p].pc = "takahashi_loop"
    /\ calls[p].n >= 3
    /\ calls[p].n <= MaxN
ShiftLosesNothing(s) == ~Add(s.f, s.l).neg /\ IsEven(Add(s.f, s.l))

\* C8: at the start of every iteration of fibTakahashi(n), n >= 3, and at loop
\* exit, f = F(k), l = L(k) and sign = (-1)^k for k = n div (2*mask); every sum
\* f + l that is shifted right is even and not negative; the loop exits with
\* mask = 1 after bits-1 iterations; the value returned is F(n).
C8_TakahashiLucas ==
    \A p \in Ids :
        /\ InTakahashiLoop(p) =>
              /\ calls[p].mask >= 1
              /\ calls[p].f = F(MaskPrefix(p))
              /\ calls[p].l = L(MaskPrefix(p))
              /\ calls[p].sign = SignOf(MaskPrefix(p))
              /\ calls[p].iters = calls[p].i - 1
              /\ ShiftLosesNothing(calls[p])
              /\ TakahashiCond(calls[p]) =>
                    ShiftLosesNothing(TakahashiDouble(calls[p], Globals))
              /\ ~TakahashiCond(calls[p]) =>
                    (calls[p].mask = 1 /\ calls[p].iters = calls[p].bits - 1)
        /\ (calls[p].fn = "fibTakahashi" /\ Done(p) /\ calls[p].n >= 3
                /\ calls[p].n <= MaxN) =>
              calls[p].ret = F(calls[p].n)

\* fibTakahashi(101) at loop exit: five iterations done, bit 0 set
C8_Witness ==
    /\ calls[1].fn = "fibTakahashi"
    /\ calls[1].pc = "takahashi_loop"
    /\ calls[1].n = 101
    /\ ~TakahashiCond(calls[1])
    /\ calls[1].mask = 1
    /\ calls[1].iters = 5

\* ------------------------------------------------------------ C9
\* bits = floor(log2(n)) for n >= 1
IsFloorLog2(bits, n) == bits >= 0 /\ 2 ^ bits <= n /\ n < 2 ^ (bits + 1)

C9_Log2AndBounds ==
    \A p \in Ids :
        /\ calls[p].pc = "log2" =>
              /\ calls[p].lgn >= 1
              /\ calls[p].lgbits < MaxBits
              /\ ~Log2Cond(calls[p].lgn, calls[p].lgbits) =>
                    IsFloorLog2(calls[p].lgbits, calls[p].lgn)
        /\ (Done(p) /\ calls[p].n >= 1 /\ "fibBlenkinsop" \in
                {calls[p].used[j] : j \in 1..Len(calls[p].used)}) =>
              IsFloorLog2(calls[p].iters, calls[p].n)
        /\ (Done(p) /\ calls[p].n >= 3 /\ "fibTakahashi" \in
                {calls[p].used[j] : j \in 1..Len(calls[p].used)}) =>
              IsFloorLog2(calls[p].iters + 1, calls[p].n)

\* a call that has not returned has a step to take: every position but log2 has
\* one unconditionally (a loop position iterates or returns)
CanStep(s) ==
    IF s.pc = "log2" THEN ~Log2Cond(s.lgn, s.lgbits) \/ s.lgbits < MaxBits
    ELSE s.pc \in {"Fibonacci", "fibSeries", "series_loop", "fibBlenkinsop",
                   "blenkinsop_loop", "fibTakahashi", "takahashi_loop", "fibDouble",
                   "double_loop"}

\* a bound on the steps a call has left, by position
Rank(s) ==
    LET n0 == Max2(s.n, 0)
    IN  CASE s.pc = "done"            -> 0
          [] s.pc = "series_loop"     -> 1 + Max2(s.n - s.i, 0)
          [] s.pc = "fibSeries"       -> 2 + n0
          [] s.pc = "blenkinsop_loop" -> 1 + s.h
          [] s.pc = "takahashi_loop"  -> 1 + Max2(s.bits - s.i, 0)
          [] s.pc = "log2"            -> 3 + MaxBits + Max2(MaxBits - s.lgbits, 0)
          [] s.pc = "fibBlenkinsop"   -> 4 + 2 * MaxBits
          [] s.pc = "fibTakahashi"    -> 4 + 2 * MaxBits
          [] s.pc = "Fibonacci"       -> 5 + 2 * MaxBits + n0
          [] s.pc = "double_loop"     -> 1 + s.bit
          [] s.pc = "fibDouble"       -> 2 + 2 ^ DoubleBits

\* every step of a call of Fibonacci, fibSeries, fibBlenkinsop or fibTakahashi
\* lowers the bound on the steps it has left
C9_StepsDecrease ==
    \A p \in Ids :
        (calls[p].fn \in Clamped /\ calls'[p] # calls[p]) =>
            (Rank(calls'[p]) < Rank(calls[p]) /\ Rank(calls'[p]) >= 0)

\* C9: every call of Fibonacci, fibSeries, fibBlenkinsop or fibTakahashi, with a
\* negative, zero or positive index, returns: until it has, it has a step to take
\* and every step lowers a bound on the steps left; log2 is only entered with an
\* argument >= 1 and leaves with floor(log2(n)); the Blenkinsop scan makes
\* floor(log2(n)) iterations and the Takahashi scan floor(log2(n)) - 1.
C9_Termination ==
    /\ []C9_Log2AndBounds
    /\ [](\A p \in Ids : (calls[p].fn \in Clamped /\ ~Done(p)) => CanStep(calls[p]))
    /\ [][C9_StepsDecrease]_vars

\* log2(100), called from fibBlenkinsop, about to return 6
C9_Witness ==
    /\ calls[1].fn = "fibBlenkinsop"
    /\ calls[1].n = 100
    /\ calls[1].pc = "log2"
    /\ calls[1].lgbits = 6
    /\ ~Log2Cond(calls[1].lgn, calls[1].lgbits)

\* ------------------------------------------------------------ C10
\* C10 as stated: for every int k, fibDouble(k) returns the k-th Fibonacci number,
\* the value fibBlenkinsop(k) returns.
C10_DoubleAgrees ==
    \A p \in Ids :
        (calls[p].fn = "fibDouble" /\ Done(p)) =>
            calls[p].ret = fibBlenkinsop(calls[p].n)

=============================================================================
